---- MODULE Spec2Model ----
(***************************************************************************)
(* Model of pkg/rendering: the template cache (templates.go) and the       *)
(* kind-dispatched patch pipeline (renderer.go) of the multiclusterhub     *)
(* operator.  Goroutines call Renderer.Render concurrently; the cache map  *)
(* and the cached template objects are shared memory, every other object   *)
(* is private to the call that allocated it.                               *)
(***************************************************************************)
EXTENDS Integers, Sequences, FiniteSets, TLC

\* ------------------------------------------------------------------ bounds
NumThreads == 2
MaxCalls == 3

Threads == 1..NumThreads

\* ------------------------------------------------------------- data model
\* key := fmt.Sprintf("%s-%s", kind, version): one key per process.
Key == "multiclusterhub-version"

NoLabel == [name |-> "", namespace |-> ""]

NoOwner == [name |-> "", namespace |-> ""]

\* The owning entities (r.cr) a Renderer is constructed with.
Owners ==
  { [name |-> "hub-a", namespace |-> "ns-a"],
    [name |-> "hub-b", namespace |-> "ns-b"] }

NamespaceKinds ==
  {"Deployment", "Service", "ServiceAccount", "ConfigMap", "Subscription",
   "StatefulSet", "Channel"}

\* The keys of renderer.renderFns.
RegisteredKinds ==
  NamespaceKinds \cup {"ClusterRoleBinding", "ClusterRole", "CustomResourceDefinition"}

UnregisteredKinds == {"Secret", "Namespace"}

\* A resource is the content of one object: metadata.name, kind,
\* metadata.namespace, the shape (Go dynamic type) of metadata.annotations
\* ("none": absent, "iface": map[string]interface{}, "str": map[string]string),
\* the value of the update-namespace annotation ("" when the key is absent),
\* the installer label, the subjects, whether the object decodes into its
\* typed form, and whether it carries a field its typed form does not have.
Res(n, k, ns, sh, v, subj, wf, ex) ==
  [name |-> n, kind |-> k, ns |-> ns, shape |-> sh, val |-> v,
   installer |-> NoLabel, subjects |-> subj, wellFormed |-> wf, extra |-> ex]

Subj(k, ns) == [kind |-> k, ns |-> ns]

\* The template directory under TEMPLATES_PATH/multiclusterhub/base, as the
\* kustomize build materializes it.  Objects decoded from YAML carry their
\* annotations as map[string]interface{} ("iface") or not at all ("none").
DirA ==
  << Res("dep", "Deployment", "orig", "iface", "false", <<>>, TRUE, FALSE),
     Res("sec", "Secret", "orig", "none", "", <<>>, TRUE, TRUE),
     Res("role", "ClusterRole", "", "none", "", <<>>, TRUE, FALSE) >>

DirB ==
  << Res("crb-sa", "ClusterRoleBinding", "", "none", "",
         <<Subj("ServiceAccount", "orig"), Subj("User", "orig")>>, TRUE, TRUE),
     Res("svc", "Service", "orig", "none", "", <<>>, TRUE, FALSE),
     Res("crb-bad", "ClusterRoleBinding", "", "none", "",
         <<Subj("ServiceAccount", "orig")>>, FALSE, FALSE) >>

DirC ==
  << Res("crd", "CustomResourceDefinition", "", "none", "", <<>>, TRUE, FALSE),
     Res("crb-grp", "ClusterRoleBinding", "", "iface", "false",
         <<Subj("Group", "orig")>>, TRUE, FALSE),
     Res("cm", "ConfigMap", "orig", "iface", "", <<>>, TRUE, FALSE) >>

DirD ==
  << Res("nsobj", "Namespace", "", "none", "", <<>>, TRUE, FALSE),
     Res("crb-empty", "ClusterRoleBinding", "", "none", "", <<>>, TRUE, FALSE) >>

TemplateDirs == {DirA, DirB, DirC, DirD}

\* Directories of one resource: every kind, with and without annotations,
\* every kind of first subject.
AnnVals == {"", "true", "false", "bogus"}

SubjectLists ==
  { << >>,
    <<Subj("ServiceAccount", "orig")>>,
    <<Subj("Group", "orig")>>,
    <<Subj("Group", "orig"), Subj("ServiceAccount", "orig")>>,
    <<Subj("ServiceAccount", "orig"), Subj("User", "orig")>> }

OneResources ==
  { Res("one", k, "orig", "none", "", << >>, TRUE, FALSE) :
      k \in (RegisteredKinds \cup UnregisteredKinds) \ {"ClusterRoleBinding"} }
  \cup
  { Res("one", k, "orig", "iface", v, << >>, TRUE, FALSE) :
      k \in (RegisteredKinds \cup UnregisteredKinds) \ {"ClusterRoleBinding"},
      v \in AnnVals }
  \cup
  { Res("one", "ClusterRoleBinding", "", "none", "", sl, wf, TRUE) :
      sl \in SubjectLists, wf \in BOOLEAN }
  \cup
  { Res("one", "ClusterRoleBinding", "", "iface", v, sl, TRUE, FALSE) :
      sl \in SubjectLists, v \in AnnVals }

AllDirs == TemplateDirs \cup { <<r>> : r \in OneResources }

\* ------------------------------------------------------------ the object heap
\* A heap is what one call can reach: the materialized ResMaps (shared) and the
\* objects the call allocated itself (private).  A reference names one object.
TmplRef(rm, i) == [area |-> "tmpl", rm |-> rm, i |-> i]
PrivRef(i) == [area |-> "priv", rm |-> 0, i |-> i]
NilRef == [area |-> "nil", rm |-> 0, i |-> 0]

Deref(H, ref) ==
  IF ref.area = "tmpl" THEN H.tmpl[ref.rm][ref.i] ELSE H.priv[ref.i]

Store(H, ref, rec) ==
  IF ref.area = "tmpl"
    THEN [H EXCEPT !.tmpl[ref.rm][ref.i] = rec]
    ELSE [H EXCEPT !.priv[ref.i] = rec]

New(H, rec) ==
  [heap |-> [H EXCEPT !.priv = Append(@, rec)], ref |-> PrivRef(Len(H.priv) + 1)]

\* Mutant of DeepCopy: the template itself is handed to the patch function.
DeepCopyAlias(H, ref) == [heap |-> H, ref |-> ref]

\* template.DeepCopy(): a new object with the content of the template.
DeepCopy(H, ref) == New(H, Deref(H, ref))

\* --------------------------------------------------------- patch functions
\* strconv.ParseBool.
ParseBool(str) ==
  IF str \in {"1", "t", "T", "TRUE", "true", "True"} THEN [val |-> TRUE, ok |-> TRUE]
  ELSE IF str \in {"0", "f", "F", "FALSE", "false", "False"} THEN [val |-> FALSE, ok |-> TRUE]
  ELSE [val |-> FALSE, ok |-> FALSE]

\* Mutant of UpdateNamespace: the annotations are read whatever their map type.
UpdateNamespaceAnyMap(u) ==
  IF u.shape # "none" /\ u.val # ""
    THEN ParseBool(u.val).val
    ELSE TRUE

\* UpdateNamespace: the annotation is read only through the type assertion
\* metadata["annotations"].(map[string]string); the parse error is discarded.
UpdateNamespace(u) ==
  IF u.shape = "str" /\ u.val # ""
    THEN ParseBool(u.val).val
    ELSE TRUE

\* utils.AddInstallerLabel: sets the installer name and namespace labels.
AddInstallerLabel(u, name, ns) ==
  [u EXCEPT !.installer = [name |-> name, namespace |-> ns]]

\* runtime.DefaultUnstructuredConverter.FromUnstructured into v1.ClusterRoleBinding:
\* the typed object keeps the fields the type declares.
FromUnstructured(u) ==
  [name |-> u.name, kind |-> u.kind, ns |-> u.ns,
   hasAnnotations |-> u.shape # "none", val |-> u.val,
   installer |-> u.installer, subjects |-> u.subjects]

\* Mutant of ToUnstructured: the type information is not written back.
ToUnstructuredNoKind(c) ==
  [name |-> c.name, kind |-> "", ns |-> c.ns,
   shape |-> IF c.hasAnnotations THEN "iface" ELSE "none", val |-> c.val,
   installer |-> c.installer, subjects |-> c.subjects,
   wellFormed |-> TRUE, extra |-> FALSE]

\* runtime.DefaultUnstructuredConverter.ToUnstructured: a new generic object.
ToUnstructured(c) ==
  [name |-> c.name, kind |-> c.kind, ns |-> c.ns,
   shape |-> IF c.hasAnnotations THEN "iface" ELSE "none", val |-> c.val,
   installer |-> c.installer, subjects |-> c.subjects,
   wellFormed |-> TRUE, extra |-> FALSE]

Done(H, out) == [heap |-> H, out |-> out, err |-> "", panic |-> FALSE]
Failed(H, e) == [heap |-> H, out |-> NilRef, err |-> e, panic |-> FALSE]
Panicked(H) == [heap |-> H, out |-> NilRef, err |-> "", panic |-> TRUE]

\* Mutant of renderNamespace: the namespace is never set.
renderNamespaceKeep(H, res, owner) == Done(H, res)

renderNamespace(H, res, owner) ==
  LET u == Deref(H, res)
      H1 == IF UpdateNamespace(u)
              THEN Store(H, res, [u EXCEPT !.ns = owner.namespace])
              ELSE H
  IN Done(H1, res)

renderClusterRole(H, res, owner) ==
  Done(Store(H, res, AddInstallerLabel(Deref(H, res), owner.name, owner.namespace)), res)

\* Mutant of renderClusterRoleBinding: no exemption of a Group subject.
renderClusterRoleBindingNoGroup(H, res, owner) ==
  LET H1 == Store(H, res, AddInstallerLabel(Deref(H, res), owner.name, owner.namespace))
      u == Deref(H1, res)
      crb == FromUnstructured(u)
  IN IF ~u.wellFormed THEN Failed(H1, "conversion")
     ELSE IF Len(crb.subjects) = 0 THEN Panicked(H1)
     ELSE LET crb2 == IF UpdateNamespace(u)
                        THEN [crb EXCEPT !.subjects[1].ns = owner.namespace]
                        ELSE crb
              n == New(H1, ToUnstructured(crb2))
          IN Done(n.heap, n.ref)

\* Mutant of renderClusterRoleBinding: the namespace is set on the last
\* subject instead of the first.
renderClusterRoleBindingLast(H, res, owner) ==
  LET H1 == Store(H, res, AddInstallerLabel(Deref(H, res), owner.name, owner.namespace))
      u == Deref(H1, res)
      crb == FromUnstructured(u)
  IN IF ~u.wellFormed THEN Failed(H1, "conversion")
     ELSE IF Len(crb.subjects) = 0 THEN Panicked(H1)
     ELSE IF crb.subjects[1].kind = "Group" THEN Done(H1, res)
     ELSE LET crb2 == IF UpdateNamespace(u)
                        THEN [crb EXCEPT !.subjects[Len(crb.subjects)].ns = owner.namespace]
                        ELSE crb
              n == New(H1, ToUnstructured(crb2))
          IN Done(n.heap, n.ref)

renderClusterRoleBinding(H, res, owner) ==
  LET H1 == Store(H, res, AddInstallerLabel(Deref(H, res), owner.name, owner.namespace))
      u == Deref(H1, res)
      crb == FromUnstructured(u)
  IN IF ~u.wellFormed THEN Failed(H1, "conversion")
     ELSE IF Len(crb.subjects) = 0 THEN Panicked(H1)
     ELSE IF crb.subjects[1].kind = "Group" THEN Done(H1, res)
     ELSE LET crb2 == IF UpdateNamespace(u)
                        THEN [crb EXCEPT !.subjects[1].ns = owner.namespace]
                        ELSE crb
              n == New(H1, ToUnstructured(crb2))
          IN Done(n.heap, n.ref)

\* Mutant of renderCRD: the object is returned without the label.
renderCRDNoLabel(H, res, owner) == Done(H, res)

renderCRD(H, res, owner) ==
  Done(Store(H, res, AddInstallerLabel(Deref(H, res), owner.name, owner.namespace)), res)

\* renderer.renderFns, built by NewRenderer.
renderFns(kind) ==
  IF kind \in NamespaceKinds THEN "renderNamespace"
  ELSE IF kind = "ClusterRoleBinding" THEN "renderClusterRoleBinding"
  ELSE IF kind = "ClusterRole" THEN "renderClusterRole"
  ELSE IF kind = "CustomResourceDefinition" THEN "renderCRD"
  ELSE "missing"

\* A renderFn that signals "drop": it returns (nil, nil).
renderNil(H, res, owner) == Done(H, NilRef)

\* r.renderFns[kind]: the entries of NewRenderer, and those in extra.
Dispatch(extra, kind) ==
  IF kind \in DOMAIN extra THEN extra[kind] ELSE renderFns(kind)

NoExtraFns == << >>

\* Mutant of PassThrough: a template of an unregistered kind is skipped.
PassThroughDrop(H, ref) == Done(H, NilRef)

\* renderTemplates, !ok: the template's own map is wrapped and appended.
PassThrough(H, ref) == Done(H, ref)

\* One iteration of the loop of renderTemplates over the template at ref.
RenderOne(extra, H, ref, owner) ==
  LET fn == Dispatch(extra, Deref(H, ref).kind)
  IN IF fn = "missing" THEN PassThrough(H, ref)
     ELSE LET c == DeepCopy(H, ref)
          IN CASE fn = "renderNamespace" -> renderNamespace(c.heap, c.ref, owner)
               [] fn = "renderClusterRole" -> renderClusterRole(c.heap, c.ref, owner)
               [] fn = "renderClusterRoleBinding" -> renderClusterRoleBinding(c.heap, c.ref, owner)
               [] fn = "renderCRD" -> renderCRD(c.heap, c.ref, owner)
               [] fn = "renderNil" -> renderNil(c.heap, c.ref, owner)

\* ------------------------------------------------------------------ state
VARIABLES
  envFound,          \* os.LookupEnv(TEMPLATES_PATH) finds the variable
  disk,              \* what the kustomize build of the base directory yields
  extraFns,          \* entries of r.renderFns set besides those of NewRenderer
  onceDone,          \* loadTemplateRendererOnce has run
  templateRenderer,  \* the package variable: 0 (nil) or the instance it points to
  templates,         \* templateRenderer.templates: key -> ResMap (by identity)
  resmaps,           \* the ResMap objects materialized so far, by identity
  renderCalls,       \* invocations of TemplateRenderer.render
  served,            \* the ResMaps GetTemplates has returned the resources of
  proc,              \* "running", or how the process ended
  calls,             \* Render calls started
  pc,                \* per goroutine: where its Render call stands
  cr,                \* per goroutine: the owning entity of its Renderer
  resMap,            \* per goroutine: the local resMap of GetTemplates
  idx,               \* per goroutine: the position of the loop of renderTemplates
  uobjs,             \* per goroutine: the local uobjs of renderTemplates
  priv,              \* per goroutine: the objects its call allocated
  result             \* per goroutine: what its last Render call returned

vars ==
  << envFound, disk, extraFns, onceDone, templateRenderer, templates, resmaps, renderCalls,
     served, proc, calls, pc, cr, resMap, idx, uobjs, priv, result >>

NoResult == [status |-> "none", err |-> "", resources |-> << >>]
OkResult(rs) == [status |-> "ok", err |-> "", resources |-> rs]
ErrResult(e) == [status |-> "err", err |-> e, resources |-> << >>]

\* Mutant of RenderError: the resources collected so far come with the error.
RenderErrorPartial(rs, e) == [status |-> "err", err |-> e, resources |-> rs]

\* renderTemplates returns an empty slice with the error and Render returns
\* nil with it: the resources rs collected so far are not returned.
RenderError(rs, e) == ErrResult(e)

\* Mutant of AppendOut: the new object is put in front.
PrependOut(rs, out) == IF out = NilRef THEN rs ELSE <<out>> \o rs

\* Mutant of AppendOut: a nil uobj is appended like any other.
AppendOutNil(rs, out) == Append(rs, out)

\* uobjs = append(uobjs, uobj), skipped for a nil uobj.
AppendOut(rs, out) == IF out = NilRef THEN rs ELSE Append(rs, out)

Heap(t) == [tmpl |-> resmaps, priv |-> priv[t]]

InitBase(dirs, tabs) ==
  /\ envFound \in BOOLEAN
  /\ disk \in dirs
  /\ extraFns \in tabs
  /\ onceDone = FALSE
  /\ templateRenderer = 0
  /\ templates = << >>
  /\ resmaps = << >>
  /\ renderCalls = 0
  /\ served = {}
  /\ proc = "running"
  /\ calls = 0
  /\ pc = [t \in Threads |-> "idle"]
  /\ cr = [t \in Threads |-> NoOwner]
  /\ resMap = [t \in Threads |-> 0]
  /\ idx = [t \in Threads |-> 0]
  /\ uobjs = [t \in Threads |-> << >>]
  /\ priv = [t \in Threads |-> << >>]
  /\ result = [t \in Threads |-> NoResult]

\* NewRenderer is the only constructor of the operator: no extra entries.
InitWith(dirs) == InitBase(dirs, {NoExtraFns})

Init == InitWith(TemplateDirs)

\* Mutant of GetTemplateRenderer: no Once, every call builds a new instance.
GetTemplateRendererEveryCall(t) ==
  IF envFound
    THEN /\ onceDone' = TRUE
         /\ templateRenderer' = templateRenderer + 1
         /\ templates' = << >>
         /\ pc' = [pc EXCEPT ![t] = "lookup"]
         /\ UNCHANGED proc
    ELSE /\ proc' = "fatal"
         /\ UNCHANGED << onceDone, templateRenderer, templates, pc >>

\* Mutant of GetTemplateRenderer: a missing TEMPLATES_PATH is only logged.
GetTemplateRendererNoFatal(t) ==
  IF onceDone
    THEN /\ pc' = [pc EXCEPT ![t] = "lookup"]
         /\ UNCHANGED << onceDone, templateRenderer, templates, proc >>
    ELSE /\ onceDone' = TRUE
         /\ templateRenderer' = templateRenderer + 1
         /\ templates' = << >>
         /\ pc' = [pc EXCEPT ![t] = "lookup"]
         /\ UNCHANGED proc

\* GetTemplateRenderer: the body of loadTemplateRendererOnce.Do runs once;
\* without TEMPLATES_PATH it ends the process (log.Fatalf).
GetTemplateRenderer(t) ==
  IF onceDone
    THEN /\ pc' = [pc EXCEPT ![t] = "lookup"]
         /\ UNCHANGED << onceDone, templateRenderer, templates, proc >>
    ELSE IF envFound
      THEN /\ onceDone' = TRUE
           /\ templateRenderer' = templateRenderer + 1
           /\ templates' = << >>
           /\ pc' = [pc EXCEPT ![t] = "lookup"]
           /\ UNCHANGED proc
      ELSE /\ proc' = "fatal"
           /\ UNCHANGED << onceDone, templateRenderer, templates, pc >>

\* NewRenderer(owner).Render: entry, up to GetTemplateRenderer() returning.
RenderBegin(t) ==
  /\ proc = "running"
  /\ pc[t] = "idle"
  /\ calls < MaxCalls
  /\ calls' = calls + 1
  /\ \E owner \in Owners : cr' = [cr EXCEPT ![t] = owner]
  /\ resMap' = [resMap EXCEPT ![t] = 0]
  /\ idx' = [idx EXCEPT ![t] = 0]
  /\ uobjs' = [uobjs EXCEPT ![t] = << >>]
  /\ priv' = [priv EXCEPT ![t] = << >>]
  /\ result' = [result EXCEPT ![t] = NoResult]
  /\ GetTemplateRenderer(t)
  /\ UNCHANGED << envFound, disk, extraFns, resmaps, renderCalls, served >>

\* Mutant of Lookup: the entry found is ignored, every call materializes.
LookupMiss(t) ==
  /\ proc = "running"
  /\ pc[t] = "lookup"
  /\ pc' = [pc EXCEPT ![t] = "render"]
  /\ UNCHANGED << envFound, disk, extraFns, onceDone, templateRenderer, templates, resmaps,
                  renderCalls, served, proc, calls, cr, resMap, idx, uobjs, priv, result >>

\* GetTemplates: resMap, ok := r.templates[key]; a hit returns the resources
\* and Render enters renderTemplates.
Lookup(t) ==
  /\ proc = "running"
  /\ pc[t] = "lookup"
  /\ IF Key \in DOMAIN templates
       THEN /\ resMap' = [resMap EXCEPT ![t] = templates[Key]]
            /\ served' = served \cup {templates[Key]}
            /\ idx' = [idx EXCEPT ![t] = 1]
            /\ pc' = [pc EXCEPT ![t] = "loop"]
            /\ UNCHANGED result
       ELSE /\ pc' = [pc EXCEPT ![t] = "render"]
            /\ UNCHANGED << resMap, served, idx, result >>
  /\ UNCHANGED << envFound, disk, extraFns, onceDone, templateRenderer, templates, resmaps,
                  renderCalls, proc, calls, cr, uobjs, priv >>

\* Mutant of RenderDir: the nil ResMap of a failed materialization is stored
\* under the key before the error is returned.
RenderDirStoreFailure(t) ==
  /\ proc = "running"
  /\ pc[t] = "render"
  /\ renderCalls' = renderCalls + 1
  /\ \/ /\ resmaps' = Append(resmaps, disk)
        /\ resMap' = [resMap EXCEPT ![t] = Len(resmaps) + 1]
        /\ pc' = [pc EXCEPT ![t] = "store"]
        /\ UNCHANGED << result, templates >>
     \/ /\ result' = [result EXCEPT ![t] = ErrResult("materialization")]
        /\ pc' = [pc EXCEPT ![t] = "idle"]
        /\ templates' = [k \in DOMAIN templates \cup {Key} |-> 0]
        /\ UNCHANGED << resmaps, resMap >>
  /\ UNCHANGED << envFound, disk, extraFns, onceDone, templateRenderer, served,
                  proc, calls, cr, idx, uobjs, priv >>

\* GetTemplates: resMap, err = r.render(...); an error is returned at once.
RenderDir(t) ==
  /\ proc = "running"
  /\ pc[t] = "render"
  /\ renderCalls' = renderCalls + 1
  /\ \/ /\ resmaps' = Append(resmaps, disk)
        /\ resMap' = [resMap EXCEPT ![t] = Len(resmaps) + 1]
        /\ pc' = [pc EXCEPT ![t] = "store"]
        /\ UNCHANGED result
     \/ /\ result' = [result EXCEPT ![t] = ErrResult("materialization")]
        /\ pc' = [pc EXCEPT ![t] = "idle"]
        /\ UNCHANGED << resmaps, resMap >>
  /\ UNCHANGED << envFound, disk, extraFns, onceDone, templateRenderer, templates, served,
                  proc, calls, cr, idx, uobjs, priv >>

\* GetTemplates: r.templates[key] = resMap, then the resources are returned
\* and Render enters renderTemplates.
StoreTemplates(t) ==
  /\ proc = "running"
  /\ pc[t] = "store"
  /\ templates' = [k \in DOMAIN templates \cup {Key} |->
                     IF k = Key THEN resMap[t] ELSE templates[k]]
  /\ served' = served \cup {resMap[t]}
  /\ idx' = [idx EXCEPT ![t] = 1]
  /\ pc' = [pc EXCEPT ![t] = "loop"]
  /\ UNCHANGED << envFound, disk, extraFns, onceDone, templateRenderer, resmaps, renderCalls,
                  proc, calls, cr, resMap, uobjs, priv, result >>

\* The map write of one goroutine overlapping the map read or write of
\* another is a data race; the Go runtime may end the process on it
\* ("concurrent map writes", "concurrent map read and map write").
MapRace(t) ==
  /\ proc = "running"
  /\ pc[t] = "store"
  /\ \E u \in Threads \ {t} : pc[u] \in {"lookup", "store"}
  /\ proc' = "mapfault"
  /\ UNCHANGED << envFound, disk, extraFns, onceDone, templateRenderer, templates, resmaps,
                  renderCalls, served, calls, pc, cr, resMap, idx, uobjs, priv, result >>

\* Mutant of Loop: a failing transform also removes the cache entry.
LoopEvict(t) ==
  /\ proc = "running"
  /\ pc[t] = "loop"
  /\ IF idx[t] > Len(resmaps[resMap[t]])
       THEN /\ result' = [result EXCEPT ![t] = OkResult(uobjs[t])]
            /\ pc' = [pc EXCEPT ![t] = "idle"]
            /\ UNCHANGED << resmaps, priv, uobjs, idx, proc, templates >>
       ELSE LET r == RenderOne(extraFns, Heap(t), TmplRef(resMap[t], idx[t]), cr[t])
            IN /\ resmaps' = r.heap.tmpl
               /\ priv' = [priv EXCEPT ![t] = r.heap.priv]
               /\ IF r.panic
                    THEN /\ proc' = "panic"
                         /\ UNCHANGED << result, pc, uobjs, idx, templates >>
                    ELSE IF r.err # ""
                      THEN /\ result' = [result EXCEPT ![t] = RenderError(uobjs[t], r.err)]
                           /\ pc' = [pc EXCEPT ![t] = "idle"]
                           /\ templates' = << >>
                           /\ UNCHANGED << uobjs, idx, proc >>
                      ELSE /\ uobjs' = [uobjs EXCEPT ![t] = AppendOut(@, r.out)]
                           /\ idx' = [idx EXCEPT ![t] = @ + 1]
                           /\ UNCHANGED << result, pc, proc, templates >>
  /\ UNCHANGED << envFound, disk, extraFns, onceDone, templateRenderer, renderCalls,
                  served, calls, cr, resMap >>

\* renderTemplates: one iteration of the loop, or the return after the last.
Loop(t) ==
  /\ proc = "running"
  /\ pc[t] = "loop"
  /\ IF idx[t] > Len(resmaps[resMap[t]])
       THEN /\ result' = [result EXCEPT ![t] = OkResult(uobjs[t])]
            /\ pc' = [pc EXCEPT ![t] = "idle"]
            /\ UNCHANGED << resmaps, priv, uobjs, idx, proc >>
       ELSE LET r == RenderOne(extraFns, Heap(t), TmplRef(resMap[t], idx[t]), cr[t])
            IN /\ resmaps' = r.heap.tmpl
               /\ priv' = [priv EXCEPT ![t] = r.heap.priv]
               /\ IF r.panic
                    THEN /\ proc' = "panic"
                         /\ UNCHANGED << result, pc, uobjs, idx >>
                    ELSE IF r.err # ""
                      THEN /\ result' = [result EXCEPT ![t] = RenderError(uobjs[t], r.err)]
                           /\ pc' = [pc EXCEPT ![t] = "idle"]
                           /\ UNCHANGED << uobjs, idx, proc >>
                      ELSE /\ uobjs' = [uobjs EXCEPT ![t] = AppendOut(@, r.out)]
                           /\ idx' = [idx EXCEPT ![t] = @ + 1]
                           /\ UNCHANGED << result, pc, proc >>
  /\ UNCHANGED << envFound, disk, extraFns, onceDone, templateRenderer, templates, renderCalls,
                  served, calls, cr, resMap >>

Step(t) ==
  \/ RenderBegin(t)
  \/ Lookup(t)
  \/ RenderDir(t)
  \/ StoreTemplates(t)
  \/ Loop(t)

Next == \E t \in Threads : Step(t) \/ MapRace(t)

Spec == Init /\ [][Next]_vars

\* One goroutine only: the calls are sequential.
NextSeq == Step(1)

InitSeq == InitWith(AllDirs)

SpecSeq == InitSeq /\ [][NextSeq]_vars

\* A Renderer whose table holds a dropping function for one kind, called
\* sequentially.
DropTables ==
  { [k \in {kind} |-> "renderNil"] : kind \in {"Secret", "Service", "ClusterRole", "ClusterRoleBinding"} }

InitDrop == InitBase(TemplateDirs, DropTables)

SpecDrop == InitDrop /\ [][NextSeq]_vars

\* ---------------------------------------------------------------- properties
\* The templates a call iterates over, and the objects its result holds.
Tmpls(t) == resmaps[resMap[t]]
Out(t) == [j \in 1..Len(result[t].resources) |-> Deref(Heap(t), result[t].resources[j])]
Succeeded(t) == result[t].status = "ok"
Stored == Key \in DOMAIN templates

\* C1: under any interleaving of concurrent callers the materialization of the
\* key is carried out at most once (at most one collection is ever built).
C1_MaterializedAtMostOnce == Len(resmaps) <= 1

\* C2: only one materialization outcome is ever stored for the key and every
\* successful GetTemplates call returns that stored collection.
C2_OneStoredOutcome == served # {} => (Stored /\ served = {templates[Key]})

\* Every collection returned is the one stored, the only one materialized.
C3_Returned == served # {} => (Stored /\ served = {templates[Key]} /\ Len(resmaps) = 1)

C3_NoRematerialization ==
  Stored => (renderCalls' = renderCalls /\ templates' = templates /\ resmaps' = resmaps)

\* C3: with sequential calls, once a call has succeeded the key stays stored,
\* every call returns the one stored collection, and no further call invokes
\* the materialization: its count stays what it was.
C3_CacheIdempotent == [](C3_Returned) /\ [][C3_NoRematerialization]_vars

C3_Witness ==
  /\ calls = MaxCalls
  /\ renderCalls = 1
  /\ Succeeded(1)
  /\ resMap[1] = templates[Key]

\* The step that returns a materialization error.
C4_FailureStep(t) ==
  (pc[t] = "render" /\ pc'[t] = "idle") =>
    /\ result'[t] = ErrResult("materialization")
    /\ templates' = templates
    /\ served' = served

\* The steps of a call that finds the key absent.
C4_RetryStep(t) ==
  /\ (pc[t] = "lookup" /\ result[t] = NoResult /\ ~Stored /\ pc'[t] # "lookup")
       => pc'[t] = "render"
  /\ (pc[t] = "render" /\ pc'[t] # "render") => renderCalls' = renderCalls + 1
  /\ (pc[t] = "store" /\ pc'[t] = "loop")
       => (Key \in DOMAIN templates' /\ templates'[Key] = resMap[t] /\ resMap[t] \in served')

\* A sequential caller holding a materialization error finds the key absent.
C4_AfterFailure ==
  \A t \in Threads :
    (result[t].err = "materialization" /\ pc[t] = "idle") =>
      (~Stored /\ result[t].resources = << >>)

\* C4: a failed materialization returns the error with no resources and
\* leaves the cache as it was; the next call finds the key absent, invokes
\* the materialization again, and a success is stored and returned.
C4_FailureNotCached ==
  [](C4_AfterFailure) /\ [][\A t \in Threads : C4_FailureStep(t) /\ C4_RetryStep(t)]_vars

C4_Witness ==
  /\ renderCalls = 2
  /\ Len(resmaps) = 1
  /\ Stored
  /\ Succeeded(1)
  /\ Len(result[1].resources) > 0

\* C5: a failing transform ends the call at that resource: the error is
\* returned with an empty collection, none of the resources processed before
\* it are returned; a materialization error returns no resources either.
C5_FailFast ==
  \A t \in Threads :
    result[t].status = "err" =>
      /\ result[t].resources = << >>
      /\ pc[t] = "idle"
      /\ result[t].err = "conversion" =>
           /\ idx[t] \in 1..Len(Tmpls(t))
           /\ ~Tmpls(t)[idx[t]].wellFormed
           /\ Len(uobjs[t]) = idx[t] - 1
      /\ result[t].err = "materialization" => uobjs[t] = << >>

C5_Witness ==
  \E t \in Threads :
    /\ result[t].err = "conversion"
    /\ Len(uobjs[t]) = 2
    /\ result[t].resources = << >>

\* Object o of goroutine t shows the template's values or its own owner's.
C6_OwnOrTemplate(t, o) ==
  \E i \in 1..Len(disk) :
    /\ o.name = disk[i].name
    /\ o.ns \in {disk[i].ns, cr[t].namespace}
    /\ o.installer \in {disk[i].installer, cr[t]}
    /\ Len(o.subjects) = Len(disk[i].subjects)
    /\ \A k \in 1..Len(o.subjects) :
         o.subjects[k].ns \in {disk[i].subjects[k].ns, cr[t].namespace}

\* C6: no Render call changes a cached template; every patch function works
\* on an object private to the call, so a result never shows the namespace
\* or label of an owning entity other than the call's own.
C6_CacheReadOnly ==
  /\ \A id \in 1..Len(resmaps) : resmaps[id] = disk
  /\ \A t \in Threads :
       /\ \A j \in 1..Len(uobjs[t]) :
            uobjs[t][j].area = "tmpl" =>
              Deref(Heap(t), uobjs[t][j]).kind \notin RegisteredKinds
       /\ \A j \in 1..Len(uobjs[t]) : C6_OwnOrTemplate(t, Deref(Heap(t), uobjs[t][j]))

C6_Witness ==
  \E t, u \in Threads :
    /\ cr[t] # cr[u]
    /\ Succeeded(t) /\ Succeeded(u)
    /\ resMap[t] = resMap[u]
    /\ \E j \in 1..Len(Out(t)) :
         /\ Out(t)[j].ns = cr[t].namespace
         /\ Out(u)[j].ns = cr[u].namespace
         /\ Tmpls(t)[j].ns = "orig"
    /\ \E j \in 1..Len(Out(t)) :
         /\ Out(t)[j].installer = cr[t]
         /\ Out(u)[j].installer = cr[u]

\* C7: a successful Render returns every template of an unregistered kind,
\* with the content of the template.
C7_IdentityPassThrough ==
  \A t \in Threads :
    Succeeded(t) =>
      \A i \in 1..Len(Tmpls(t)) :
        Tmpls(t)[i].kind \notin RegisteredKinds =>
          \E j \in 1..Len(Out(t)) : Out(t)[j] = Tmpls(t)[i]

C7_Witness ==
  \E t \in Threads :
    /\ Succeeded(t)
    /\ \E j \in 1..Len(Out(t)) :
         /\ Out(t)[j].kind \in UnregisteredKinds
         /\ Out(t)[j].extra
         /\ Out(t)[j] = Tmpls(t)[j]

\* The position of the template named n.
NameIndex(tmpls, n) == CHOOSE i \in 1..Len(tmpls) : tmpls[i].name = n

\* C8: the resources collected by a call follow the order of the templates:
\* each derives from a template, later ones from later templates, none twice.
C8_OrderPreserved ==
  \A t \in Threads :
    LET outs == [j \in 1..Len(uobjs[t]) |-> Deref(Heap(t), uobjs[t][j])]
    IN /\ \A j \in 1..Len(outs) :
            \E i \in 1..Len(Tmpls(t)) :
              Tmpls(t)[i].name = outs[j].name /\ Tmpls(t)[i].kind = outs[j].kind
       /\ \A j, k \in 1..Len(outs) :
            j < k => NameIndex(Tmpls(t), outs[j].name) < NameIndex(Tmpls(t), outs[k].name)
       /\ Succeeded(t) => result[t].resources = uobjs[t]

C8_Witness ==
  \E t \in Threads :
    /\ Succeeded(t)
    /\ Len(Out(t)) = 3
    /\ \A j \in 1..3 : Out(t)[j].name = disk[j].name

\* C9: a resource of a namespace-transform kind annotated
\* update-namespace: "false" keeps its original namespace.
C9_NamespaceOptOut ==
  \A t \in Threads :
    Succeeded(t) =>
      \A i \in 1..Len(Tmpls(t)) :
        (Tmpls(t)[i].kind \in NamespaceKinds /\ Tmpls(t)[i].shape # "none"
           /\ Tmpls(t)[i].val = "false") =>
          \A j \in 1..Len(Out(t)) :
            Out(t)[j].name = Tmpls(t)[i].name => Out(t)[j].ns = Tmpls(t)[i].ns

\* C10: a resource of a namespace-transform kind without the update-namespace
\* annotation, or with an empty value of it, is rendered into the namespace of
\* the owning entity.
C10_NamespaceDefault ==
  \A t \in Threads :
    Succeeded(t) =>
      \A i \in 1..Len(Tmpls(t)) :
        (Tmpls(t)[i].kind \in NamespaceKinds /\ Tmpls(t)[i].val = "") =>
          \E j \in 1..Len(Out(t)) :
            /\ Out(t)[j].name = Tmpls(t)[i].name
            /\ Out(t)[j].kind = Tmpls(t)[i].kind
            /\ Out(t)[j].ns = cr[t].namespace

C10_Witness ==
  \E t \in Threads :
    /\ Succeeded(t)
    /\ Len(Out(t)) = 1
    /\ Tmpls(t)[1].kind = "Channel"
    /\ Tmpls(t)[1].shape = "iface" /\ Tmpls(t)[1].val = ""
    /\ Tmpls(t)[1].ns = "orig"
    /\ Out(t)[1].ns = "ns-b"

\* Helpers of the ClusterRoleBinding properties.
IsCRB(r) == r.kind = "ClusterRoleBinding"
Tail2(sq) == [k \in 1..(Len(sq) - 1) |-> sq[k + 1]]

\* C11: a ClusterRoleBinding whose first subject is a Group is rendered with
\* all its subjects as in the template, whatever the update-namespace
\* annotation and the namespace of the owning entity.
C11_GroupExemption ==
  \A t \in Threads :
    Succeeded(t) =>
      \A i \in 1..Len(Tmpls(t)) :
        (IsCRB(Tmpls(t)[i]) /\ Len(Tmpls(t)[i].subjects) > 0
           /\ Tmpls(t)[i].subjects[1].kind = "Group") =>
          /\ i <= Len(Out(t))
          /\ Out(t)[i].name = Tmpls(t)[i].name
          /\ Out(t)[i].subjects = Tmpls(t)[i].subjects

C11_Witness ==
  \E t \in Threads :
    /\ Succeeded(t)
    /\ Len(Out(t)) = 1
    /\ IsCRB(Tmpls(t)[1])
    /\ Tmpls(t)[1].shape = "iface" /\ Tmpls(t)[1].val = "true"
    /\ cr[t].namespace = "ns-b"
    /\ Len(Out(t)[1].subjects) = 2
    /\ Out(t)[1].subjects[1] = Subj("Group", "orig")
    /\ Out(t)[1].subjects[2] = Subj("ServiceAccount", "orig")

\* C12: a ClusterRoleBinding whose first subject is not a Group and that has
\* no opt-out annotation is rendered with the first subject in the namespace
\* of the owning entity, with the ownership label, and with the subjects
\* after the first as in the template.
C12_SubjectRewrite ==
  \A t \in Threads :
    Succeeded(t) =>
      \A i \in 1..Len(Tmpls(t)) :
        (IsCRB(Tmpls(t)[i]) /\ Len(Tmpls(t)[i].subjects) > 0
           /\ Tmpls(t)[i].subjects[1].kind # "Group"
           /\ (ParseBool(Tmpls(t)[i].val).val \/ ~ParseBool(Tmpls(t)[i].val).ok)) =>
          /\ i <= Len(Out(t))
          /\ Out(t)[i].name = Tmpls(t)[i].name
          /\ Len(Out(t)[i].subjects) = Len(Tmpls(t)[i].subjects)
          /\ Out(t)[i].subjects[1] =
               [Tmpls(t)[i].subjects[1] EXCEPT !.ns = cr[t].namespace]
          /\ Tail2(Out(t)[i].subjects) = Tail2(Tmpls(t)[i].subjects)
          /\ Out(t)[i].installer = cr[t]

C12_Witness ==
  \E t \in Threads :
    /\ Succeeded(t)
    /\ Len(Out(t)) = 1
    /\ IsCRB(Tmpls(t)[1])
    /\ Tmpls(t)[1].subjects = <<Subj("ServiceAccount", "orig"), Subj("User", "orig")>>
    /\ Tmpls(t)[1].shape = "none"
    /\ Out(t)[1].subjects = <<Subj("ServiceAccount", "ns-a"), Subj("User", "orig")>>
    /\ Out(t)[1].installer = [name |-> "hub-a", namespace |-> "ns-a"]

\* C13: every ClusterRole, ClusterRoleBinding and CustomResourceDefinition of
\* a successful Render carries the ownership label of the call's owning
\* entity, on the Group and the non-Group path and for every annotation value.
C13_OwnershipLabel ==
  \A t \in Threads :
    Succeeded(t) =>
      \A j \in 1..Len(Out(t)) :
        Out(t)[j].kind \in {"ClusterRole", "ClusterRoleBinding", "CustomResourceDefinition"}
          => (Out(t)[j].installer = cr[t] /\ cr[t] \in Owners)

C13_Witness ==
  \E t \in Threads :
    /\ Succeeded(t)
    /\ Len(Out(t)) = 1
    /\ Out(t)[1].kind = "CustomResourceDefinition"
    /\ Tmpls(t)[1].val = "false"
    /\ Tmpls(t)[1].installer = NoLabel
    /\ Out(t)[1].installer = [name |-> "hub-b", namespace |-> "ns-b"]

\* C14: the kind of every output of a successful Render is the kind of the
\* template it derives from, for every patch function and the pass-through.
C14_KindImmutable ==
  \A t \in Threads :
    Succeeded(t) =>
      /\ Len(Out(t)) = Len(Tmpls(t))
      /\ \A i \in 1..Len(Tmpls(t)) : Out(t)[i].kind = Tmpls(t)[i].kind

C14_Witness ==
  \E t \in Threads :
    /\ Succeeded(t)
    /\ Len(Out(t)) = 1
    /\ result[t].resources[1].area = "priv"
    /\ Out(t)[1] # Tmpls(t)[1]
    /\ Out(t)[1].kind = "ClusterRoleBinding"
    /\ Out(t)[1].subjects[1].ns = cr[t].namespace
    /\ Tmpls(t)[1].extra /\ ~Out(t)[1].extra

\* A step never replaces the cache instance nor loses the entry of the key.
C15_OnceStep ==
  /\ templateRenderer # 0 => templateRenderer' = templateRenderer
  /\ Stored => Key \in DOMAIN templates'

\* Every caller past GetTemplateRenderer holds the one instance ever built.
C15_OneInstance ==
  /\ templateRenderer <= 1
  /\ onceDone => templateRenderer = 1
  /\ \A t \in Threads : (pc[t] # "idle" \/ result[t] # NoResult) => templateRenderer = 1

\* C15: the setup of the cache runs once per process under concurrent and
\* repeated callers: all of them get the same instance and its map is never
\* created again, so a stored entry is never lost to a later caller.
C15_SetupOnce == [](C15_OneInstance) /\ [][C15_OnceStep]_vars

C15_Witness ==
  \E t, u \in Threads :
    /\ t # u
    /\ Succeeded(t) /\ Succeeded(u)
    /\ calls = MaxCalls
    /\ templateRenderer = 1
    /\ Stored

\* C16: without TEMPLATES_PATH the first call ends the process: no cache
\* instance exists, and no materialization or render step ever runs.
C16_FatalWithoutPath ==
  ~envFound =>
    /\ templateRenderer = 0 /\ ~onceDone
    /\ renderCalls = 0 /\ resmaps = << >> /\ ~Stored /\ served = {}
    /\ \A t \in Threads : pc[t] = "idle" /\ result[t] = NoResult /\ uobjs[t] = << >>
    /\ calls <= 1
    /\ calls = 1 => proc = "fatal"

C16_Witness == ~envFound /\ proc = "fatal" /\ calls = 1

\* The templates of sq whose registered function signals "drop", and the rest.
Dropped(r) == r.kind \in DOMAIN extraFns /\ extraFns[r.kind] = "renderNil"
KeepTest(r) == ~Dropped(r)
Kept(sq) == SelectSeq(sq, KeepTest)

\* What rendering the i-th template of call t alone yields.
Alone(t, i) ==
  LET r == RenderOne(extraFns, [tmpl |-> resmaps, priv |-> << >>], TmplRef(resMap[t], i), cr[t])
  IN Deref(r.heap, r.out)

\* C17: a template whose patch function returns no output and no error is
\* left out, the loop goes on without an error, and the other resources come
\* out in their order and as they would without it.
C17_DropSignal ==
  \A t \in Threads :
    /\ (pc[t] = "loop" /\ idx[t] >= 1) =>
         Len(uobjs[t]) = Len(Kept(SubSeq(Tmpls(t), 1, idx[t] - 1)))
    /\ Succeeded(t) =>
         /\ Len(result[t].resources) = Len(Kept(Tmpls(t)))
         /\ \A j \in 1..Len(Out(t)) :
              /\ Out(t)[j].name = Kept(Tmpls(t))[j].name
              /\ Out(t)[j] = Alone(t, NameIndex(Tmpls(t), Out(t)[j].name))

C17_Witness ==
  \E t \in Threads :
    /\ Succeeded(t)
    /\ Len(Tmpls(t)) = 3
    /\ Dropped(Tmpls(t)[2])
    /\ Len(Out(t)) = 2
    /\ Out(t)[1].name = Tmpls(t)[1].name
    /\ Out(t)[2].name = Tmpls(t)[3].name

\* C18: rendering a ClusterRoleBinding without subjects ends in an error
\* returned by Render: the process does not panic, and the call does not
\* succeed.
C18_ZeroSubjectsIsError ==
  /\ proc # "panic"
  /\ \A t \in Threads :
       (pc[t] = "idle" /\ resMap[t] # 0 /\ result[t] # NoResult
          /\ \E i \in 1..Len(Tmpls(t)) :
               IsCRB(Tmpls(t)[i]) /\ Tmpls(t)[i].wellFormed /\ Tmpls(t)[i].subjects = << >>)
         => result[t].status = "err"

\* A non-empty annotation value strconv.ParseBool rejects, on a resource whose
\* patch function consults UpdateNamespace.
Malformed(r) ==
  /\ r.shape # "none" /\ r.val # "" /\ ~ParseBool(r.val).ok
  /\ \/ r.kind \in NamespaceKinds
     \/ IsCRB(r) /\ r.wellFormed /\ Len(r.subjects) > 0 /\ r.subjects[1].kind # "Group"

\* C19 as claimed: a malformed update-namespace value fails the render of
\* the resource.
C19_MalformedFails ==
  \A t \in Threads :
    Succeeded(t) => \A i \in 1..Len(Tmpls(t)) : ~Malformed(Tmpls(t)[i])

\* C19 as amended: a malformed update-namespace value never fails the render;
\* the resource is rendered with the default decision, its namespace (or its
\* first subject's) set to the owning entity's, and a call fails only on a
\* materialization error or on an object that does not decode.
C19_MalformedIgnored ==
  \A t \in Threads :
    /\ result[t].status = "err" =>
         \/ result[t].err = "materialization"
         \/ result[t].err = "conversion" /\ ~Tmpls(t)[idx[t]].wellFormed
    /\ Succeeded(t) =>
         \A i \in 1..Len(Tmpls(t)) :
           Malformed(Tmpls(t)[i]) =>
             /\ i <= Len(Out(t))
             /\ Out(t)[i].name = Tmpls(t)[i].name
             /\ Out(t)[i].kind \in NamespaceKinds => Out(t)[i].ns = cr[t].namespace
             /\ IsCRB(Out(t)[i]) => Out(t)[i].subjects[1].ns = cr[t].namespace

C19_Witness ==
  \E t \in Threads :
    /\ Succeeded(t)
    /\ Len(Out(t)) = 1
    /\ Tmpls(t)[1].kind = "Deployment"
    /\ Tmpls(t)[1].val = "bogus"
    /\ Tmpls(t)[1].ns = "orig"
    /\ Out(t)[1].ns = "ns-a"

\* The step of the pipeline that returns an error leaves the cache alone.
C20_FailureStep(t) ==
  (pc[t] = "loop" /\ result'[t].status = "err") =>
    (templates' = templates /\ resmaps' = resmaps /\ renderCalls' = renderCalls)

\* A sequential caller holding an error finds the key stored exactly when
\* the error came from the pipeline.
C20_AfterFailure ==
  \A t \in Threads :
    (pc[t] = "idle" /\ result[t].status = "err") =>
      /\ result[t].err = "conversion" <=> Stored
      /\ Stored => (templates[Key] = resMap[t] /\ Len(resmaps) = 1)

\* C20: a Render that fails in the patch pipeline leaves the entry of the
\* key stored and the next Render reuses it without materializing again;
\* only a materialization failure leaves the key absent.
C20_PipelineFailureKeepsCache ==
  /\ [](C20_AfterFailure)
  /\ [][(\A t \in Threads : C20_FailureStep(t))
        /\ (Stored => (Key \in DOMAIN templates' /\ renderCalls' = renderCalls))]_vars

C20_Witness ==
  /\ calls = 2
  /\ renderCalls = 1
  /\ pc[1] = "idle"
  /\ result[1].err = "conversion"
  /\ Stored

====
